---------------------------- MODULE Spec2Model ----------------------------
(* BIU Agent: the GraphQL resolvers of BiuAgentResolver, the query service   *)
(* BiuAgentWrenQueryService they call, and the chatQuery polling flow.       *)
(* Strings are modelled as sequences of words (tokens), JavaScript values as *)
(* tagged records [t, v], and every await of a resolver as one step of the   *)
(* request that runs it.                                                     *)
EXTENDS Integers, Sequences, FiniteSets, TLC

(***************************************************************************)
(* Bounds of the model                                                     *)
(***************************************************************************)
\* Number of GraphQL requests in flight together.
NumReqs == 2
\* Integer limit arguments are drawn from -LimitSlack..LimitSlack,
\* 10 and 100-LimitSlack..100+LimitSlack.
LimitSlack == 1
\* Longest column list and longest row of an engine result (executeQuery).
MaxCols == 2
\* Largest number of data rows of an engine result (executeQuery).
MaxRows == 2

Reqs == 1..NumReqs

(***************************************************************************)
(* JavaScript values                                                       *)
(***************************************************************************)
Null == [t |-> "null", v |-> <<>>]
Undefined == "undefined"
List(s) == [t |-> "list", v |-> s]
Obj(f) == [t |-> "obj", v |-> f]
Str(m) == [t |-> "str", v |-> m]

NoErr == [cls |-> "", msg |-> "", code |-> "", customerId |-> ""]
Return(val) == [val |-> val, kind |-> "return", err |-> NoErr]
Throw(e) == [val |-> Null, kind |-> "throw", err |-> e]
None == [val |-> Null, kind |-> "none", err |-> NoErr]

\* A plain Error and a GraphQLError raised by the host's services.
HostError == [cls |-> "Error", msg |-> "host", code |-> "", customerId |-> ""]
HostGraphQLError ==
    [cls |-> "GraphQLError", msg |-> "host", code |-> "HOST", customerId |-> ""]

(***************************************************************************)
(* SQL text: a sequence of words                                           *)
(***************************************************************************)
Customers == {"c1", "C1"}

Quote(cid) == IF cid = "c1" THEN "'c1'" ELSE "'C1'"

\* String.prototype.toLowerCase on one word.
Lower(w) ==
    CASE w \in {"FROM", "From"} -> "from"
      [] w \in {"WHERE", "Where"} -> "where"
      [] w = "CUSTOMER_ID" -> "customer_id"
      [] w = "'C1'" -> "'c1'"
      [] w = "AND" -> "and"
      [] OTHER -> w

\* String.prototype.toUpperCase on one word.
Upper(w) ==
    CASE w \in {"from", "From"} -> "FROM"
      [] w \in {"where", "Where"} -> "WHERE"
      [] w = "customer_id" -> "CUSTOMER_ID"
      [] w = "'c1'" -> "'C1'"
      [] w = "select" -> "SELECT"
      [] w \in {"x", "y", "t"} -> IF w = "x" THEN "X" ELSE IF w = "y" THEN "Y" ELSE "T"
      [] OTHER -> w

LowerSeq(s) == [i \in 1..Len(s) |-> Lower(s[i])]
UpperSeq(s) == [i \in 1..Len(s) |-> Upper(s[i])]

\* String.prototype.includes: needle occurs as a contiguous run of words.
Includes(s, needle) ==
    \E i \in 0..(Len(s) - Len(needle)) :
        \A j \in 1..Len(needle) : s[i + j] = needle[j]

\* String.prototype.indexOf for a one-word needle; 0 stands for -1.
IndexOf(s, w) ==
    IF \E i \in 1..Len(s) : s[i] = w
    THEN CHOOSE i \in 1..Len(s) : s[i] = w /\ \A j \in 1..(i - 1) : s[j] # w
    ELSE 0

\* sql.replace(/where/gi, repl): every word that is "where" in any case.
RECURSIVE ReplaceWhere(_, _)
ReplaceWhere(s, repl) ==
    IF s = <<>> THEN <<>>
    ELSE (IF Lower(Head(s)) = "where" THEN repl ELSE <<Head(s)>>)
         \o ReplaceWhere(Tail(s), repl)

\* The literal `customer_id = '${customerId}'`.
FilterText(cid) == <<"customer_id", "=", Quote(cid)>>

\* The SQL a finished TEXT_TO_SQL task may carry.
SqlHeads == {<<"select", "x">>}
SqlFroms == {<<>>, <<"from", "t">>}
SqlWheres ==
    {<<>>, <<"Where", "y">>,
     <<"where", "customer_id", "=", "'c1'">>,
     <<"WHERE", "CUSTOMER_ID", "=", "'C1'">>}
SqlInputs == {h \o f \o w : h \in SqlHeads, f \in SqlFroms, w \in SqlWheres}

\* chatQuery: "Ensure SQL includes customer_id filter".
EnsureCustomerFilter(sql, cid) ==
    IF ~Includes(LowerSeq(sql), FilterText(cid))
    THEN IF Includes(LowerSeq(sql), <<"where">>)
         THEN ReplaceWhere(sql, <<"WHERE">> \o FilterText(cid) \o <<"AND">>)
         ELSE LET fromIndex == IndexOf(UpperSeq(sql), "FROM")
              IN  IF fromIndex # 0
                  THEN SubSeq(sql, 1, fromIndex - 1)
                       \o SubSeq(sql, fromIndex, Len(sql))
                       \o <<"WHERE">> \o FilterText(cid)
                  ELSE sql
    ELSE sql

(***************************************************************************)
(* BiuAgentWrenQueryService.executeQuery                                   *)
(***************************************************************************)
\* A column of an engine result: a bare name, or an object with a name.
ColNames == {"a", "b"}
Cols == [obj : BOOLEAN, name : ColNames]
CellValues == {"u", "v"}

SeqsUpTo(S, n) == UNION {[1..k -> S] : k \in 0..n}

\* What queryService.preview can answer: a value that is no object, an
\* object with or without the fields data and columns (data may be null),
\* or an exception. A result whose field is absent carries <<>> there.
NonObject == [t |-> "nonobject", hasData |-> FALSE, hasColumns |-> FALSE,
              dataNull |-> FALSE, columns |-> <<>>, data |-> <<>>]
Table(columns, data) ==
    [t |-> "object", hasData |-> TRUE, hasColumns |-> TRUE,
     dataNull |-> FALSE, columns |-> columns, data |-> data]
TableNullData(columns) ==
    [t |-> "object", hasData |-> TRUE, hasColumns |-> TRUE,
     dataNull |-> TRUE, columns |-> columns, data |-> <<>>]
PartialObject(hd, hc) ==
    [t |-> "object", hasData |-> hd, hasColumns |-> hc,
     dataNull |-> FALSE, columns |-> <<>>, data |-> <<>>]

EngineAnswer(r) == [err |-> NoErr, threw |-> FALSE, result |-> r]
EngineThrow(e) == [err |-> e, threw |-> TRUE, result |-> NonObject]

\* Every engine answer within the bounds.
EngineAnswers ==
    {EngineThrow(HostError), EngineThrow(HostGraphQLError),
     EngineAnswer(NonObject),
     EngineAnswer(PartialObject(TRUE, FALSE)),
     EngineAnswer(PartialObject(FALSE, TRUE)),
     EngineAnswer(PartialObject(FALSE, FALSE))}
    \cup {EngineAnswer(TableNullData(c)) : c \in SeqsUpTo(Cols, MaxCols)}
    \cup {EngineAnswer(Table(c, d)) :
            c \in SeqsUpTo(Cols, MaxCols),
            d \in SeqsUpTo(SeqsUpTo(CellValues, MaxCols), MaxRows)}

\* The few engine answers the resolvers are run against: an exception of
\* either class, no fields, and a one-column table of 0, 1 and 2 rows.
OneCol == <<[obj |-> FALSE, name |-> "customerId"]>>
ResolverAnswers ==
    {EngineThrow(HostError), EngineThrow(HostGraphQLError),
     EngineAnswer(PartialObject(FALSE, FALSE)),
     EngineAnswer(Table(OneCol, <<>>)),
     EngineAnswer(Table(OneCol, <<(<<"u">>)>>)),
     EngineAnswer(Table(OneCol, <<(<<"u">>), (<<"v">>)>>))}

\* col.name || col
ColumnKey(col) == col.name

\* row[index], undefined past the end of the row.
CellOffByOne(row, index) ==
    IF index + 1 <= Len(row) THEN row[index + 1] ELSE Undefined
Cell(row, index) == IF index <= Len(row) THEN row[index] ELSE Undefined

\* columns.forEach((col, index) => { obj[col] = row[index]; })
RECURSIVE RowToObject(_, _, _, _)
RowToObject(columns, row, index, obj) ==
    IF index > Len(columns) THEN obj
    ELSE RowToObject(columns, row, index + 1,
            [k \in (DOMAIN obj) \cup {columns[index]} |->
                IF k = columns[index] THEN Cell(row, index) ELSE obj[k]])

EmptyObject == [k \in {} |-> Undefined]

executeQuery(answer) ==
    IF answer.threw THEN Throw(answer.err)
    ELSE LET result == answer.result
         IN  IF result.t = "object" /\ result.hasData /\ result.hasColumns
             THEN LET columns == [i \in 1..Len(result.columns) |->
                                     ColumnKey(result.columns[i])]
                      data == IF result.dataNull THEN <<>> ELSE result.data
                  IN  Return(List([i \in 1..Len(data) |->
                          Obj(RowToObject(columns, data[i], 1, EmptyObject))]))
             ELSE Return(List(<<>>))

executeQueryOne(answer) ==
    LET results == executeQuery(answer)
    IN  IF results.kind = "throw" THEN results
        ELSE IF Len(results.val.v) > 0 THEN Return(results.val.v[1])
        ELSE Return(Null)

(***************************************************************************)
(* BiuAgentWrenQueryService: the queries of the data methods               *)
(***************************************************************************)
\* The SQL text of a service method: its table and its LIMIT (0: none).
\* A generated SQL text carries its words instead.
TemplateSql(table, sqlLimit) ==
    [table |-> table, sqlLimit |-> sqlLimit, gen |-> FALSE, words |-> <<>>]
GeneratedSql(words) ==
    [table |-> "", sqlLimit |-> 0, gen |-> TRUE, words |-> words]

\* One call of executeQuery(sql, limit): what reaches queryService.preview.
Query(sql, limit) == [sql |-> sql, limit |-> limit, sent |-> TRUE]
NoQuery == [sql |-> TemplateSql("", 0), limit |-> 0, sent |-> FALSE]

\* executeQuery's default row limit.
DEFAULT_LIMIT == 100

Min(a, b) == IF a < b THEN a ELSE b
Max(a, b) == IF a > b THEN a ELSE b

\* getRecentActivity: Math.min(Math.max(1, limit), 100)
safeLimitNoFloor(limit) == Min(limit, 100)
safeLimit(limit) == Min(Max(1, limit), 100)

svcProfileQuery == Query(TemplateSql("customers", 1), 1)
svcFinancialQuery == Query(TemplateSql("accounts", 0), 1)
svcRecentActivityQuery(limit) ==
    Query(TemplateSql("transactions", safeLimit(limit)), safeLimit(limit))
svcAccountQuery == Query(TemplateSql("accounts", 0), DEFAULT_LIMIT)
svcProductQuery == Query(TemplateSql("products", 0), DEFAULT_LIMIT)
svcCreditCardQuery == Query(TemplateSql("credit_cards", 0), DEFAULT_LIMIT)
svcInvestmentQuery == Query(TemplateSql("investments", 0), DEFAULT_LIMIT)
svcSearchQuery == Query(TemplateSql("customers", 50), 50)
svcAllIdsQuery == Query(TemplateSql("customers", 0), DEFAULT_LIMIT)

\* results.map((r) => r.customerId)
svcGetAllCustomerIds(answer) ==
    LET results == executeQuery(answer)
    IN  IF results.kind = "throw" THEN results
        ELSE Return(List([i \in 1..Len(results.val.v) |->
                IF "customerId" \in DOMAIN results.val.v[i].v
                THEN results.val.v[i].v["customerId"] ELSE Undefined]))

(***************************************************************************)
(* State                                                                   *)
(***************************************************************************)
VARIABLES
    variant,      \* which copy of the resolver is deployed: "root" is
                  \* wren-ui/biuAgentResolver.ts, "server" the one under
                  \* apollo/server/resolvers
    host,         \* the host platform's state: numbers of projects, models,
                  \* threads and asking tasks
    op,           \* op[r]: the resolver request r runs ("none": not started)
    cust,         \* cust[r]: its customerId argument
    arg,          \* arg[r]: its limit or searchTerm argument
    pc,           \* pc[r]: the await request r is suspended at
    got,          \* got[r]: the engine answers the request's queries received
    fault,        \* fault[r]: the host call of chatQuery that threw, if any
    task,         \* task[r]: id of the asking task chatQuery created (0: none)
    polled,       \* polled[r]: the id its latest poll asked for (0: none)
    elapsed,      \* elapsed[r]: Date.now() minus the time `deadline` was set
    pollCount,    \* pollCount[r]
    askResult,    \* askResult[r]: what the latest poll returned
    explanation,  \* explanation[r]: the messages collected from the stream
    q,            \* q[r]: the latest call of executeQuery the request made
    out,          \* out[r]: what the resolver returned or threw
    qIn,          \* executeQuery alone: the engine's answer
    qOut,         \* executeQuery alone: its outcome
    stream,       \* stream[r]: the explanation stream of chatQuery's
                  \* GENERAL branch
    dPc,          \* getCustomerDashboard step by step: "none", "waiting"
                  \* (at its await of Promise.all) or "done"
    dCust,        \* its customerId argument
    dCalls,       \* the service calls it started, in the order started
    dGot,         \* dGot[k]: the engine's answer to the k-th started call
    dSettled,     \* dSettled[k]: how the k-th started call settled
    dOrder,       \* the started calls in the order they settled
    dOut,         \* what the resolver returned or threw
    csvDir,       \* BiuAgentCsvService: what is at dataPath, "dir", "file"
                  \* or "missing"
    csvFiles,     \* csvFiles[f]: the content of file f on disk
    csvCache,     \* this.csvCache, a set of <<file name, records>>
    csvReads,     \* csvReads[f]: how often readFileSync read file f
    csvRet,       \* what the loadCsv calls of the latest service call
                  \* returned
    csvEdits,     \* how often the files on disk were changed
    dbCust,       \* getCustomerDatabase alone: its customerId argument
    dbDefault,    \* this.defaultDatabase
    dbFiles,      \* the names that exist under customerDbPath
    dbBad,        \* the names better-sqlite3 fails to open
    dbProbed,     \* the names handed to fs.existsSync, in order
    dbOut,        \* the database returned or the error thrown
    line,         \* parseCsvLine alone: its argument
    values        \* parseCsvLine alone: its result

vars == <<variant, host, op, cust, arg, pc, got, fault, task, polled, elapsed,
          pollCount, askResult, explanation, q, out, qIn, qOut, stream,
          dPc, dCust, dCalls, dGot, dSettled, dOrder, dOut,
          csvDir, csvFiles, csvCache, csvReads, csvRet, csvEdits,
          dbCust, dbDefault, dbFiles, dbBad, dbProbed, dbOut, line, values>>

chatVars == <<fault, task, polled, elapsed, pollCount, askResult, explanation,
              stream>>
queryVars == <<qIn, qOut>>
dashVars == <<dPc, dCust, dCalls, dGot, dSettled, dOrder, dOut>>
csvVars == <<csvDir, csvFiles, csvCache, csvReads, csvRet, csvEdits>>
dbVars == <<dbCust, dbDefault, dbFiles, dbBad, dbProbed, dbOut>>
lineVars == <<line, values>>
\* What the resolvers' requests never touch.
sideVars == <<queryVars, dashVars, csvVars, dbVars, lineVars>>

NoArg == [n |-> 0, given |-> FALSE, text |-> ""]
IntArg(n) == [n |-> n, given |-> TRUE, text |-> ""]
TextArg(text) == [n |-> 0, given |-> TRUE, text |-> text]

NoAsk == [got |-> "none", status |-> "", type |-> ""]

InitHost == [projects |-> 1, models |-> 1, threads |-> 0, askingTasks |-> 0]

InitRequests ==
    /\ variant \in {"root", "server"}
    /\ host = InitHost
    /\ op = [r \in Reqs |-> "none"]
    /\ cust = [r \in Reqs |-> "c1"]
    /\ arg = [r \in Reqs |-> NoArg]
    /\ pc = [r \in Reqs |-> "none"]
    /\ got = [r \in Reqs |-> <<>>]
    /\ fault = [r \in Reqs |-> ""]
    /\ task = [r \in Reqs |-> 0]
    /\ polled = [r \in Reqs |-> 0]
    /\ elapsed = [r \in Reqs |-> 0]
    /\ pollCount = [r \in Reqs |-> 0]
    /\ askResult = [r \in Reqs |-> NoAsk]
    /\ explanation = [r \in Reqs |-> <<>>]
    /\ stream = [r \in Reqs |-> "none"]
    /\ q = [r \in Reqs |-> NoQuery]
    /\ out = [r \in Reqs |-> None]

\* No dashboard call under way.
InitDashboard ==
    /\ dPc = "none"
    /\ dCust = "c1"
    /\ dCalls = <<>>
    /\ dGot = <<>>
    /\ dSettled = <<>>
    /\ dOrder = <<>>
    /\ dOut = None

\* The files loadCsv is called with.
CsvFileNames ==
    {"RL_ACCT_BASE_AI.csv", "RL_CC_BASE_AI.csv", "RL_PRODUCT_HOLDING_AI.csv",
     "RL_TXN_BASE_AI.csv"}

\* A file on disk: its lines, and whether readFileSync can read it.
NoFile == [content |-> <<>>, exists |-> FALSE, readable |-> FALSE]
File(content, readable) ==
    [content |-> content, exists |-> TRUE, readable |-> readable]

\* private csvCache: Map<string, CsvRow[]> = new Map()
NewMap == {}

\* A new BiuAgentCsvService over an empty data directory.
InitCsv ==
    /\ csvDir = "dir"
    /\ csvFiles = [f \in CsvFileNames |-> NoFile]
    /\ csvCache = NewMap
    /\ csvReads = [f \in CsvFileNames |-> 0]
    /\ csvRet = <<>>
    /\ csvEdits = 0

\* getCustomerDatabase not called.
InitDb ==
    /\ dbCust = "c1"
    /\ dbDefault = <<>>
    /\ dbFiles = {}
    /\ dbBad = {}
    /\ dbProbed = <<>>
    /\ dbOut = None

\* parseCsvLine not called.
InitLine ==
    /\ line = <<>>
    /\ values = <<>>

Init ==
    /\ InitRequests
    /\ qIn = EngineAnswer(NonObject)
    /\ qOut = None
    /\ InitDashboard
    /\ InitCsv
    /\ InitDb
    /\ InitLine

(***************************************************************************)
(* The data resolvers                                                      *)
(***************************************************************************)
GraphQLError(msg, code, customerId) ==
    [cls |-> "GraphQLError", msg |-> msg, code |-> code,
     customerId |-> customerId]

\* A data resolver runs from its call to its return in one step: it makes
\* one query, and nothing it reads is written by another request.
Finish(r, name, cid, a, answers, query, outcome) ==
    /\ op[r] = "none"
    /\ op' = [op EXCEPT ![r] = name]
    /\ cust' = [cust EXCEPT ![r] = cid]
    /\ arg' = [arg EXCEPT ![r] = a]
    /\ pc' = [pc EXCEPT ![r] = "done"]
    /\ got' = [got EXCEPT ![r] = answers]
    /\ q' = [q EXCEPT ![r] = query]
    /\ out' = [out EXCEPT ![r] = outcome]
    /\ UNCHANGED <<variant, host, chatVars, sideVars>>

\* getCustomerProfile's catch: a GraphQLError passes, anything else is wrapped.
catchProfileAlwaysWrap(error) ==
    Throw(GraphQLError("Failed to fetch customer profile", "", ""))
catchProfile(error) ==
    IF error.cls = "GraphQLError" THEN Throw(error)
    ELSE Throw(GraphQLError("Failed to fetch customer profile", "", ""))

resGetCustomerProfile(cid, answer) ==
    LET profile == executeQueryOne(answer)
    IN  IF profile.kind = "throw" THEN catchProfile(profile.err)
        ELSE IF profile.val = Null
        THEN catchProfile(GraphQLError("Customer not found", "CUSTOMER_NOT_FOUND", cid))
        ELSE profile

GetCustomerProfile(r) ==
    \E cid \in Customers, answer \in ResolverAnswers :
        Finish(r, "getCustomerProfile", cid, NoArg, <<answer>>,
               svcProfileQuery, resGetCustomerProfile(cid, answer))

ZeroSummary ==
    Obj([totalCasaBalance |-> 0, totalFdValue |-> 0, totalRdValue |-> 0,
         totalInvestmentValue |-> 0, totalCreditLimit |-> 0,
         totalCreditOutstanding |-> 0, totalLoanOutstanding |-> 0,
         accountCount |-> 0])

\* getFinancialSummary: "Return zero values if no data found".
noSummaryNull == Return(Null)
noSummary == Return(ZeroSummary)

resGetFinancialSummary(answer) ==
    LET summary == executeQueryOne(answer)
    IN  IF summary.kind = "throw"
        THEN Throw(GraphQLError("Failed to fetch financial summary", "", ""))
        ELSE IF summary.val = Null THEN noSummary
        ELSE summary

GetFinancialSummary(r) ==
    \E cid \in Customers, answer \in ResolverAnswers :
        Finish(r, "getFinancialSummary", cid, NoArg, <<answer>>,
               svcFinancialQuery, resGetFinancialSummary(answer))

\* The limit arguments tried: omitted, around 0, the default, around 100.
LimitArgs ==
    {NoArg} \cup {IntArg(n) : n \in ((0 - LimitSlack)..LimitSlack) \cup {10}
                                   \cup ((100 - LimitSlack)..(100 + LimitSlack))}

\* const { customerId, limit = 10 } = args; Math.min(limit, 100)
resolverLimit(a) == Min(IF a.given THEN a.n ELSE 10, 100)

\* A list resolver that wraps any error of its service.
listOrWrap(answer, msg) ==
    LET rows == executeQuery(answer)
    IN  IF rows.kind = "throw" THEN Throw(GraphQLError(msg, "", "")) ELSE rows

GetRecentActivity(r) ==
    \E cid \in Customers, a \in LimitArgs, answer \in ResolverAnswers :
        Finish(r, "getRecentActivity", cid, a, <<answer>>,
               svcRecentActivityQuery(resolverLimit(a)),
               listOrWrap(answer, "Failed to fetch recent activity"))

GetAccountOverview(r) ==
    \E cid \in Customers, answer \in ResolverAnswers :
        Finish(r, "getAccountOverview", cid, NoArg, <<answer>>,
               svcAccountQuery,
               listOrWrap(answer, "Failed to fetch account overview"))

GetProductHoldings(r) ==
    \E cid \in Customers, answer \in ResolverAnswers :
        Finish(r, "getProductHoldings", cid, NoArg, <<answer>>,
               svcProductQuery,
               listOrWrap(answer, "Failed to fetch product holdings"))

\* getCreditCardSummary: the service's list, or null when it throws.
resGetCreditCardSummary(answer) ==
    LET rows == executeQuery(answer)
    IN  IF rows.kind = "throw" THEN Return(Null) ELSE rows

GetCreditCardSummary(r) ==
    \E cid \in Customers, answer \in ResolverAnswers :
        Finish(r, "getCreditCardSummary", cid, NoArg, <<answer>>,
               svcCreditCardQuery, resGetCreditCardSummary(answer))

\* getInvestmentData: the service's list, or [] when it throws.
resGetInvestmentData(answer) ==
    LET rows == executeQuery(answer)
    IN  IF rows.kind = "throw" THEN Return(List(<<>>)) ELSE rows

GetInvestmentData(r) ==
    \E cid \in Customers, answer \in ResolverAnswers :
        Finish(r, "getInvestmentData", cid, NoArg, <<answer>>,
               svcInvestmentQuery, resGetInvestmentData(answer))

\* searchCustomers: no query for an empty or blank search term.
SearchTerms == {TextArg(""), TextArg(" "), TextArg("bob")}
Trim(text) == IF text = " " THEN "" ELSE text

SearchCustomers(r) ==
    \E a \in SearchTerms, answer \in ResolverAnswers :
        IF Trim(a.text) = ""
        THEN Finish(r, "searchCustomers", "c1", a, <<>>, NoQuery,
                    Return(List(<<>>)))
        ELSE Finish(r, "searchCustomers", "c1", a, <<answer>>, svcSearchQuery,
                    listOrWrap(answer, "Failed to search customers"))

GetAllCustomerIds(r) ==
    \E answer \in ResolverAnswers :
        Finish(r, "getAllCustomerIds", "c1", NoArg, <<answer>>, svcAllIdsQuery,
               LET ids == svcGetAllCustomerIds(answer)
               IN  IF ids.kind = "throw"
                   THEN Throw(GraphQLError("Failed to fetch customer IDs", "", ""))
                   ELSE ids)

(***************************************************************************)
(* getCustomerDashboard                                                    *)
(***************************************************************************)
RowsAnswer == EngineAnswer(Table(OneCol, <<(<<"u">>)>>))
EmptyAnswer == EngineAnswer(Table(OneCol, <<>>))
DashboardParts == 7

\* The answers of the seven sub-queries: all with a row, all empty, and
\* each one alone failing.
DashboardAnswers ==
    {[k \in 1..DashboardParts |-> RowsAnswer],
     [k \in 1..DashboardParts |-> EmptyAnswer]}
    \cup {[k \in 1..DashboardParts |->
              IF k = f THEN EngineThrow(HostError) ELSE RowsAnswer] :
          f \in 1..DashboardParts}

resGetCustomerDashboard(cid, answers) ==
    LET profile == executeQueryOne(answers[1])
        financialSummary == executeQueryOne(answers[2])
        recentActivity == executeQuery(answers[3])
        accountOverview == executeQuery(answers[4])
        productHoldings == executeQuery(answers[5])
        creditCardSummary == executeQuery(answers[6])
        investmentData == executeQuery(answers[7])
        all == <<profile, financialSummary, recentActivity, accountOverview,
                 productHoldings, creditCardSummary, investmentData>>
    IN  IF \E k \in 1..DashboardParts : all[k].kind = "throw"
        THEN Throw(GraphQLError("Failed to fetch customer dashboard",
                                "CUSTOMER_DASHBOARD_ERROR", cid))
        ELSE Return(Obj([profile |-> profile.val,
                         financialSummary |-> financialSummary.val,
                         recentActivity |-> recentActivity.val,
                         accountOverview |-> accountOverview.val,
                         productHoldings |-> productHoldings.val,
                         creditCardSummary |-> creditCardSummary.val,
                         investmentData |-> investmentData.val]))

GetCustomerDashboard(r) ==
    \E cid \in Customers, answers \in DashboardAnswers :
        Finish(r, "getCustomerDashboard", cid, NoArg, answers,
               svcInvestmentQuery, resGetCustomerDashboard(cid, answers))

(***************************************************************************)
(* getCustomerDashboard, one step per settled promise                      *)
(***************************************************************************)
\* The service methods in the order the array handed to Promise.all lists
\* them, and the fields of the returned object in the order of the
\* destructuring pattern.
DashboardMethods ==
    <<"getCustomerProfile", "getFinancialSummary", "getRecentActivity",
      "getAccountOverview", "getProductHoldings", "getCreditCardSummary",
      "getInvestmentData">>
DashboardFields ==
    <<"profile", "financialSummary", "recentActivity", "accountOverview",
      "productHoldings", "creditCardSummary", "investmentData">>

\* A started service call: the method, its customerId and the query it sends.
ServiceCall(method, cid, query) ==
    [customerId |-> cid, query |-> query, method |-> method]

\* The seven calls, each started (run up to its first await) while the array
\* is built: wrenQueryService.getRecentActivity(customerId, 10) and so on.
dashboardCalls(cid) ==
    <<ServiceCall("getCustomerProfile", cid, svcProfileQuery),
      ServiceCall("getFinancialSummary", cid, svcFinancialQuery),
      ServiceCall("getRecentActivity", cid, svcRecentActivityQuery(10)),
      ServiceCall("getAccountOverview", cid, svcAccountQuery),
      ServiceCall("getProductHoldings", cid, svcProductQuery),
      ServiceCall("getCreditCardSummary", cid, svcCreditCardQuery),
      ServiceCall("getInvestmentData", cid, svcInvestmentQuery)>>

\* The engine's answer to a call: the one row it holds for that query and
\* that customer (the row carries the call, so that rows of different calls
\* differ), or an exception.
rowsOf(call) == EngineAnswer(Table(OneCol, <<(<<call>>)>>))
CallAnswers(call) == {rowsOf(call), EngineThrow(HostError)}

\* What the service method makes of the engine's answer.
svcResultAsResolvers(method, answer) ==
    CASE method \in {"getCustomerProfile", "getFinancialSummary"} ->
            executeQueryOne(answer)
      [] method = "getCreditCardSummary" -> resGetCreditCardSummary(answer)
      [] method = "getInvestmentData" -> resGetInvestmentData(answer)
      [] OTHER -> executeQuery(answer)
svcResult(method, answer) ==
    IF method \in {"getCustomerProfile", "getFinancialSummary"}
    THEN executeQueryOne(answer)
    ELSE executeQuery(answer)

Pending(settled) == {k \in DOMAIN settled : settled[k].kind = "none"}
Rejected(settled) == {k \in DOMAIN settled : settled[k].kind = "throw"}

\* Promise.all: rejected as soon as one promise is, with that promise's
\* error; fulfilled once all are, with the values in the order of the array.
promiseAllInArrivalOrder(settled, order) ==
    IF Rejected(settled) # {}
    THEN Throw(settled[CHOOSE i \in Rejected(settled) : TRUE].err)
    ELSE IF Pending(settled) # {} THEN None
    ELSE Return(List([k \in DOMAIN settled |-> settled[order[k]].val]))
promiseAll(settled, order) ==
    IF Rejected(settled) # {}
    THEN Throw(settled[CHOOSE i \in Rejected(settled) :
                          \A j \in Rejected(settled) :
                              \E a, b \in DOMAIN order :
                                  order[a] = i /\ order[b] = j /\ a <= b].err)
    ELSE IF Pending(settled) # {} THEN None
    ELSE Return(List([k \in DOMAIN settled |-> settled[k].val]))

\* The rest of the resolver once Promise.all has settled: the object built
\* from the destructured array, or the catch.
dashboardResult(cid, all) ==
    IF all.kind = "throw"
    THEN Throw(GraphQLError("Failed to fetch customer dashboard",
                            "CUSTOMER_DASHBOARD_ERROR", cid))
    ELSE Return(Obj([profile |-> all.val.v[1],
                     financialSummary |-> all.val.v[2],
                     recentActivity |-> all.val.v[3],
                     accountOverview |-> all.val.v[4],
                     productHoldings |-> all.val.v[5],
                     creditCardSummary |-> all.val.v[6],
                     investmentData |-> all.val.v[7]]))

DashUnchanged ==
    UNCHANGED <<variant, host, op, cust, arg, pc, got, q, out, chatVars,
                queryVars, csvVars, dbVars, lineVars>>

\* The resolver runs to its await: all seven calls are started.
DashStart ==
    \E cid \in Customers :
        /\ dPc = "none"
        /\ dPc' = "waiting"
        /\ dCust' = cid
        /\ dCalls' = dashboardCalls(cid)
        /\ dGot' = [k \in 1..DashboardParts |-> EngineAnswer(NonObject)]
        /\ dSettled' = [k \in 1..DashboardParts |-> None]
        /\ UNCHANGED <<dOrder, dOut>>
        /\ DashUnchanged

\* The k-th call settles, in whatever order the engine answers; the resolver
\* resumes when Promise.all settles.  (Calls still pending then settle
\* unobserved.)
DashSettle(k) ==
    /\ dPc = "waiting"
    /\ dSettled[k].kind = "none"
    /\ \E answer \in CallAnswers(dCalls[k]) :
        LET settled == [dSettled EXCEPT
                           ![k] = svcResult(dCalls[k].method, answer)]
            order == Append(dOrder, k)
            all == promiseAll(settled, order)
        IN  /\ dGot' = [dGot EXCEPT ![k] = answer]
            /\ dSettled' = settled
            /\ dOrder' = order
            /\ IF all.kind = "none"
               THEN UNCHANGED <<dPc, dOut>>
               ELSE /\ dPc' = "done"
                    /\ dOut' = dashboardResult(dCust, all)
            /\ UNCHANGED <<dCust, dCalls>>
            /\ DashUnchanged

(***************************************************************************)
(* chatQuery                                                               *)
(***************************************************************************)
\* The deadline, in poll intervals (the code waits 1000 ms between polls and
\* gives up after MAX_WAIT_TIME, 60000 ms in the server copy): scaled down.
MaxWaitTicks == 2
ElapsedCap == MaxWaitTicks + 1

\* What a poll may return.
PollResults ==
    {[sql |-> <<>>, status |-> "SEARCHING", type |-> "", hasSql |-> FALSE],
     [sql |-> <<>>, status |-> "FAILED", type |-> "", hasSql |-> FALSE],
     [sql |-> <<>>, status |-> "STOPPED", type |-> "", hasSql |-> FALSE],
     [sql |-> <<>>, status |-> "FINISHED", type |-> "GENERAL", hasSql |-> FALSE],
     [sql |-> <<>>, status |-> "FINISHED", type |-> "MISLEADING_QUERY",
      hasSql |-> FALSE],
     [sql |-> <<>>, status |-> "FINISHED", type |-> "TEXT_TO_SQL",
      hasSql |-> FALSE]}
    \cup {[sql |-> s, status |-> "FINISHED", type |-> "TEXT_TO_SQL",
           hasSql |-> TRUE] : s \in SqlInputs}

\* utils/apiUtils isAskResultFinished, imported by the root copy.
isAskResultFinished(status) == status \in {"FINISHED", "FAILED", "STOPPED"}
\* The server copy's own test.
finishedInline(status) ==
    status = "FINISHED" \/ status = "FAILED" \/ status = "STOPPED"
Finished(status) ==
    IF variant = "root" THEN isAskResultFinished(status)
    ELSE finishedInline(status)

\* Date.now() > deadline, where deadline = Date.now() + MAX_WAIT_TIME was
\* taken before the loop.
pastDeadlineRecomputed(now) == now > now + MaxWaitTicks
pastDeadline(now) == now > MaxWaitTicks

\* askingService.createAskingTask: the host registers one more asking task.
createAskingTask(h) == [h EXCEPT !.askingTasks = @ + 1]
createThread(h) == [h EXCEPT !.threads = @ + 1]

\* The id a poll asks for: task.id, the task of this call.
pollTaskIdLatest(r, tasks, h) == h.askingTasks
pollTaskId(r, tasks, h) == tasks[r]

\* chatQuery's catch.
chatCatchRethrow(error) == Throw(error)
chatCatch(error) == Return(Str("Error"))

ChatUnchanged == UNCHANGED <<variant, op, cust, arg, got, sideVars>>

\* The request returns: pc, out and the loop's locals.
ChatEnd(r, outcome, keepLoop) ==
    /\ pc' = [pc EXCEPT ![r] = "done"]
    /\ out' = [out EXCEPT ![r] = outcome]
    /\ IF keepLoop THEN UNCHANGED <<elapsed, pollCount>>
       ELSE /\ elapsed' = [elapsed EXCEPT ![r] = 0]
            /\ pollCount' = [pollCount EXCEPT ![r] = 0]

ChatFail(r, where, error) ==
    /\ fault' = [fault EXCEPT ![r] = where]
    /\ ChatEnd(r, chatCatch(error), FALSE)

ChatStart(r) ==
    \E cid \in Customers :
        /\ op[r] = "none"
        /\ op' = [op EXCEPT ![r] = "chatQuery"]
        /\ cust' = [cust EXCEPT ![r] = cid]
        /\ pc' = [pc EXCEPT ![r] = "profile"]
        /\ q' = [q EXCEPT ![r] = svcProfileQuery]
        /\ UNCHANGED <<variant, host, arg, got, out, chatVars, sideVars>>

\* await wrenQueryService.getCustomerProfile(customerId)
ChatProfileDone(r) ==
    \E answer \in ResolverAnswers :
        LET customerProfile == executeQueryOne(answer)
        IN  /\ pc[r] = "profile"
            /\ IF customerProfile.kind = "throw"
               THEN ChatFail(r, "profile", customerProfile.err)
               ELSE /\ UNCHANGED fault
                    /\ IF customerProfile.val = Null
                       THEN ChatEnd(r, Return(Str("NotFound")), FALSE)
                       ELSE /\ pc' = [pc EXCEPT ![r] = "project"]
                            /\ UNCHANGED <<out, elapsed, pollCount>>
            /\ UNCHANGED <<host, task, polled, askResult, explanation, q>>
            /\ UNCHANGED stream
            /\ ChatUnchanged

\* await _ctx.projectService.getCurrentProject()
ChatProjectDone(r) ==
    \E ok \in BOOLEAN :
        /\ pc[r] = "project"
        /\ IF ok
           THEN /\ pc' = [pc EXCEPT ![r] = "create"]
                /\ UNCHANGED <<out, fault, elapsed, pollCount>>
           ELSE ChatFail(r, "project", HostError)
        /\ UNCHANGED <<host, task, polled, askResult, explanation, q>>
        /\ UNCHANGED stream
        /\ ChatUnchanged

\* await askingService.createAskingTask(...), then the first poll is sent.
ChatCreateDoneWithThread(r) ==
    /\ pc[r] = "create"
    /\ host' = createThread(createAskingTask(host))
    /\ task' = [task EXCEPT ![r] = host'.askingTasks]
    /\ polled' = [polled EXCEPT ![r] = pollTaskId(r, task', host')]
    /\ pc' = [pc EXCEPT ![r] = "poll"]
    /\ UNCHANGED <<out, fault, elapsed, pollCount, askResult, explanation, q>>
    /\ UNCHANGED stream
    /\ ChatUnchanged
ChatCreateDone(r) ==
    \E ok \in BOOLEAN :
        /\ pc[r] = "create"
        /\ IF ok
           THEN /\ host' = createAskingTask(host)
                /\ task' = [task EXCEPT ![r] = host'.askingTasks]
                /\ polled' = [polled EXCEPT ![r] = pollTaskId(r, task', host')]
                /\ pc' = [pc EXCEPT ![r] = "poll"]
                /\ UNCHANGED <<out, fault, elapsed, pollCount>>
           ELSE /\ ChatFail(r, "create", HostError)
                /\ UNCHANGED <<host, task, polled>>
        /\ UNCHANGED <<askResult, explanation, q>>
        /\ UNCHANGED stream
        /\ ChatUnchanged

\* After the loop: the task's status and type decide the reply, or the
\* generated SQL is filtered and sent to executeQuery.
ChatAfterLoop(r, res) ==
    IF res.status \in {"FAILED", "STOPPED"}
    THEN ChatEnd(r, Return(Str("CouldNotProcess")), FALSE) /\ UNCHANGED q
    ELSE IF variant = "root" /\ res.type = "GENERAL"
    THEN /\ pc' = [pc EXCEPT ![r] = "stream"]
         /\ elapsed' = [elapsed EXCEPT ![r] = 0]
         /\ pollCount' = [pollCount EXCEPT ![r] = 0]
         /\ UNCHANGED <<out, q>>
    ELSE IF variant = "root" /\ res.type = "MISLEADING_QUERY"
    THEN ChatEnd(r, Return(Str("Misleading")), FALSE) /\ UNCHANGED q
    ELSE IF variant = "server" /\ res.type # "TEXT_TO_SQL"
    THEN ChatEnd(r, Return(Str("Understand")), FALSE) /\ UNCHANGED q
    ELSE IF ~res.hasSql
    THEN ChatEnd(r, Return(Str("NoQuery")), FALSE) /\ UNCHANGED q
    ELSE /\ q' = [q EXCEPT ![r] =
                    Query(GeneratedSql(EnsureCustomerFilter(res.sql, cust[r])),
                          100)]
         /\ pc' = [pc EXCEPT ![r] = "exec"]
         /\ elapsed' = [elapsed EXCEPT ![r] = 0]
         /\ pollCount' = [pollCount EXCEPT ![r] = 0]
         /\ UNCHANGED out

\* await getAskResult(task.id) / getAskingTask(task.id): the poll answers
\* after d ticks with a result, with null, or with an exception.
ChatPollDone(r) ==
    /\ pc[r] = "poll"
    /\ \/ /\ ChatFail(r, "poll", HostError)
          /\ askResult' = [askResult EXCEPT ![r] =
                              [got |-> "threw", status |-> "", type |-> ""]]
          /\ UNCHANGED q
       \/ /\ askResult' = [askResult EXCEPT ![r] =
                              [got |-> "null", status |-> "", type |-> ""]]
          /\ ChatEnd(r, IF variant = "server" THEN Return(Str("NoTask"))
                        ELSE chatCatch(HostError), FALSE)
          /\ UNCHANGED <<fault, q>>
       \/ \E res \in PollResults, d \in 0..1 :
            LET now == Min(elapsed[r] + d, ElapsedCap)
            IN  /\ askResult' = [askResult EXCEPT ![r] =
                        [got |-> "result", status |-> res.status,
                         type |-> res.type]]
                /\ UNCHANGED fault
                /\ IF Finished(res.status) THEN ChatAfterLoop(r, res)
                   ELSE IF pastDeadline(now)
                   THEN /\ pc' = [pc EXCEPT ![r] = "done"]
                        /\ out' = [out EXCEPT ![r] = Return(Str("TimedOut"))]
                        /\ elapsed' = [elapsed EXCEPT ![r] = now]
                        /\ pollCount' = [pollCount EXCEPT ![r] = @ + 1]
                        /\ UNCHANGED q
                   ELSE /\ pc' = [pc EXCEPT ![r] = "sleep"]
                        /\ elapsed' = [elapsed EXCEPT ![r] = now]
                        /\ pollCount' = [pollCount EXCEPT ![r] = @ + 1]
                        /\ UNCHANGED <<out, q>>
    /\ UNCHANGED <<host, task, polled, explanation>>
    /\ UNCHANGED stream
    /\ ChatUnchanged

\* await new Promise((resolve) => setTimeout(resolve, 1000)): at least one
\* tick passes, then the next poll is sent.
ChatSleepDone(r) ==
    \E d \in 1..2 :
        /\ pc[r] = "sleep"
        /\ elapsed' = [elapsed EXCEPT ![r] = Min(@ + d, ElapsedCap)]
        /\ polled' = [polled EXCEPT ![r] = pollTaskId(r, task, host)]
        /\ pc' = [pc EXCEPT ![r] = "poll"]
        /\ UNCHANGED <<host, task, pollCount, askResult, explanation, q, out,
                       fault>>
        /\ UNCHANGED stream
        /\ ChatUnchanged

\* The GENERAL branch of the root copy.  The timer of the stream promise
\* (30000 ms), in the ticks of `elapsed`, and the most messages collected.
StreamTimeoutTicks == 1
MaxChunks == 1

\* A chunk of the stream: whether it matches /data: {"message":"(...)"}/
\* and the message matched.
StreamChunks ==
    {[matches |-> FALSE, message |-> ""], [matches |-> TRUE, message |-> ""],
     [matches |-> TRUE, message |-> "a"]}

\* stream.on('data'): if (match && match[1]) explanation += match[1]
collect(text, chunk) ==
    IF chunk.matches /\ chunk.message # "" THEN Append(text, chunk.message)
    ELSE text

\* catch (streamError): "Continue with customer data even if streaming fails"
streamCatchRethrow(error) == "rethrow"
streamCatch(error) == "continue"

\* const customerData = await this.getCustomerDashboard(...) is reached.
ToDashboard(r) ==
    /\ pc' = [pc EXCEPT ![r] = "dashboard"]
    /\ q' = [q EXCEPT ![r] = svcInvestmentQuery]

\* An exception inside the try around the stream.
StreamFailed(r, error) ==
    IF streamCatch(error) = "continue"
    THEN /\ ToDashboard(r)
         /\ UNCHANGED <<out, fault, elapsed, pollCount>>
    ELSE /\ ChatFail(r, "stream", error)
         /\ UNCHANGED q

\* await wrenAIAdaptor.getAskStreamingResult(task.id): the stream is opened
\* and the promise with its listeners and its timer is built, or the call
\* throws.
ChatStreamOpened(r) ==
    /\ pc[r] = "stream"
    /\ \E ok \in BOOLEAN :
          IF ok
          THEN /\ stream' = [stream EXCEPT ![r] = "open"]
               /\ pc' = [pc EXCEPT ![r] = "streaming"]
               /\ UNCHANGED <<out, fault, elapsed, pollCount, q>>
          ELSE /\ stream' = [stream EXCEPT ![r] = "failed"]
               /\ StreamFailed(r, HostError)
    /\ UNCHANGED <<host, task, polled, askResult, explanation>>
    /\ ChatUnchanged

\* stream.on('data'): a chunk arrives before the timer has fired.
ChatStreamData(r) ==
    /\ pc[r] = "streaming"
    /\ stream[r] = "open"
    /\ \E chunk \in StreamChunks, d \in 0..1 :
          /\ elapsed[r] + d <= StreamTimeoutTicks
          /\ Len(collect(explanation[r], chunk)) <= MaxChunks
          /\ explanation' = [explanation EXCEPT ![r] = collect(@, chunk)]
          /\ elapsed' = [elapsed EXCEPT ![r] = @ + d]
    /\ UNCHANGED <<host, task, polled, pollCount, askResult, q, out, fault, pc,
                   stream>>
    /\ ChatUnchanged

\* The service stops sending without ending the stream.
ChatStreamStall(r) ==
    /\ pc[r] = "streaming"
    /\ stream[r] = "open"
    /\ stream' = [stream EXCEPT ![r] = "stalled"]
    /\ UNCHANGED <<host, task, polled, elapsed, pollCount, askResult,
                   explanation, q, out, fault, pc>>
    /\ ChatUnchanged

\* await streamPromise: 'end' resolves it, 'error' rejects it, and the timer
\* destroys the stream and resolves it.
ChatStreamDone(r) ==
    /\ pc[r] = "streaming"
    /\ \/ /\ stream[r] = "open"
          /\ stream' = [stream EXCEPT ![r] = "ended"]
          /\ ToDashboard(r)
          /\ UNCHANGED <<out, fault, elapsed, pollCount>>
       \/ /\ stream[r] = "open"
          /\ stream' = [stream EXCEPT ![r] = "error"]
          /\ StreamFailed(r, HostError)
       \/ /\ stream[r] \in {"open", "stalled"}
          /\ stream' = [stream EXCEPT ![r] = "destroyed"]
          /\ elapsed' = [elapsed EXCEPT ![r] = StreamTimeoutTicks]
          /\ ToDashboard(r)
          /\ UNCHANGED <<out, fault, pollCount>>
    /\ UNCHANGED <<host, task, polled, askResult, explanation>>
    /\ ChatUnchanged

\* await this.getCustomerDashboard(...); the call returns, and the locals
\* of the branch (the stream, the explanation) are gone.
ChatDashboardDone(r) ==
    \E answers \in DashboardAnswers :
        LET customerData == resGetCustomerDashboard(cust[r], answers)
        IN  /\ pc[r] = "dashboard"
            /\ IF customerData.kind = "throw"
               THEN ChatFail(r, "dashboard", customerData.err)
               ELSE /\ UNCHANGED fault
                    /\ IF customerData.val.v.profile = Null
                       THEN ChatEnd(r, Return(Str(IF explanation[r] # <<>>
                                                  THEN "Explanation"
                                                  ELSE "Understand")), FALSE)
                       ELSE ChatEnd(r, Return(Str("Discussion")), FALSE)
            /\ stream' = [stream EXCEPT ![r] = "none"]
            /\ explanation' = [explanation EXCEPT ![r] = <<>>]
            /\ UNCHANGED <<host, task, polled, askResult, q>>
            /\ ChatUnchanged

\* await wrenQueryService.executeQuery(finalSql, 100)
ChatExecDone(r) ==
    \E answer \in ResolverAnswers :
        LET queryResult == executeQuery(answer)
        IN  /\ pc[r] = "exec"
            /\ IF queryResult.kind = "throw"
               THEN ChatFail(r, "exec", queryResult.err)
               ELSE /\ UNCHANGED fault
                    /\ ChatEnd(r, Return(Str(
                           CASE Len(queryResult.val.v) = 0 -> "NoData"
                             [] Len(queryResult.val.v) = 1 -> "Single"
                             [] OTHER -> "Multiple")), FALSE)
            /\ UNCHANGED <<host, task, polled, askResult, explanation, q>>
            /\ UNCHANGED stream
            /\ ChatUnchanged

\* The continuation of request r that the event loop runs next.
ChatStep(r) ==
    \/ ChatProfileDone(r)
    \/ ChatProjectDone(r)
    \/ ChatCreateDone(r)
    \/ ChatPollDone(r)
    \/ ChatSleepDone(r)
    \/ ChatStreamOpened(r)
    \/ ChatStreamData(r)
    \/ ChatStreamDone(r)
    \/ ChatDashboardDone(r)
    \/ ChatExecDone(r)

Call(r) ==
    \/ GetCustomerDashboard(r)
    \/ GetCustomerProfile(r)
    \/ GetFinancialSummary(r)
    \/ GetRecentActivity(r)
    \/ GetAccountOverview(r)
    \/ GetProductHoldings(r)
    \/ GetCreditCardSummary(r)
    \/ GetInvestmentData(r)
    \/ SearchCustomers(r)
    \/ GetAllCustomerIds(r)
    \/ ChatStart(r)

Next == \E r \in Reqs : Call(r) \/ ChatStep(r) \/ ChatStreamStall(r)

Spec == Init /\ [][Next]_vars

\* The data resolvers alone.
DataCall(r) ==
    \/ GetCustomerDashboard(r)
    \/ GetCustomerProfile(r)
    \/ GetFinancialSummary(r)
    \/ GetRecentActivity(r)
    \/ GetAccountOverview(r)
    \/ GetProductHoldings(r)
    \/ GetCreditCardSummary(r)
    \/ GetInvestmentData(r)
    \/ SearchCustomers(r)
    \/ GetAllCustomerIds(r)

DataNext == \E r \in Reqs : DataCall(r)

DataSpec == Init /\ [][DataNext]_vars

\* chatQuery alone, several calls interleaved.
ChatNext == \E r \in Reqs : ChatStart(r) \/ ChatStep(r) \/ ChatStreamStall(r)

ChatSpec == Init /\ [][ChatNext]_vars

\* Node's event loop runs every continuation that is ready.
FairChatSpec == ChatSpec /\ \A r \in Reqs : WF_vars(ChatStep(r))

\* executeQuery alone, on every engine answer within the bounds.
QueryInit ==
    /\ InitRequests
    /\ qIn \in EngineAnswers
    /\ qOut = None
    /\ InitDashboard
    /\ InitCsv
    /\ InitDb
    /\ InitLine

QueryRun ==
    /\ qOut = None
    /\ qOut' = executeQuery(qIn)
    /\ UNCHANGED <<variant, host, op, cust, arg, pc, got, q, out, chatVars, qIn,
                   dashVars, csvVars, dbVars, lineVars>>

QuerySpec == QueryInit /\ [][QueryRun]_vars

\* getCustomerDashboard alone, its sub-queries settling in any order.
DashNext == DashStart \/ \E k \in 1..DashboardParts : DashSettle(k)

DashSpec == Init /\ [][DashNext]_vars

(***************************************************************************)
(* BiuAgentCsvService.parseCsvLine                                         *)
(***************************************************************************)
\* A line is a sequence of characters.
MaxLineLen == 5
DQuote == "\""
LineChars == {DQuote, ",", " ", "N", "U", "L"}
Lines == UNION {[1..n -> LineChars] : n \in 0..MaxLineLen}

\* String.prototype.trim
RECURSIVE trimStart(_)
trimStart(text) ==
    IF text # <<>> /\ Head(text) = " " THEN trimStart(Tail(text)) ELSE text
RECURSIVE trimEnd(_)
trimEnd(text) ==
    IF text # <<>> /\ text[Len(text)] = " "
    THEN trimEnd(SubSeq(text, 1, Len(text) - 1))
    ELSE text
trim(text) == trimEnd(trimStart(text))

\* current.trim() === 'NULL' ? '' : current.trim()
NullWord == <<"N", "U", "L", "L">>
pushedKeepNull(current) == trim(current)
pushed(current) == IF trim(current) = NullWord THEN <<>> ELSE trim(current)

\* The loop of parseCsvLine from index i on (i counts from 1), and the
\* push of the last value after it.
RECURSIVE parseFrom(_, _, _, _, _)
parseFrom(text, i, current, inQuotes, vals) ==
    IF i > Len(text) THEN Append(vals, pushed(current))
    ELSE LET char == text[i]
             nextIsQuote == i + 1 <= Len(text) /\ text[i + 1] = DQuote
         IN  IF char = DQuote
             THEN IF inQuotes /\ nextIsQuote
                  THEN parseFrom(text, i + 2, Append(current, DQuote),
                                 inQuotes, vals)
                  ELSE parseFrom(text, i + 1, current, ~inQuotes, vals)
             ELSE IF char = "," /\ ~inQuotes
             THEN parseFrom(text, i + 1, <<>>, inQuotes,
                            Append(vals, pushed(current)))
             ELSE parseFrom(text, i + 1, Append(current, char), inQuotes,
                            vals)

parseCsvLine(text) == parseFrom(text, 1, <<>>, FALSE, <<>>)

\* parseCsvLine alone, on every line within the bounds.  (The service does
\* not depend on the copy of the resolver.)
LineInit ==
    /\ InitRequests
    /\ variant = "server"
    /\ qIn = EngineAnswer(NonObject)
    /\ qOut = None
    /\ InitDashboard
    /\ InitCsv
    /\ InitDb
    /\ line \in Lines
    /\ values = <<>>

ParseLine ==
    /\ values = <<>>
    /\ values' = parseCsvLine(line)
    /\ UNCHANGED <<variant, host, op, cust, arg, pc, got, q, out, chatVars,
                   queryVars, dashVars, csvVars, dbVars, line>>

LineSpec == LineInit /\ [][ParseLine]_vars

(***************************************************************************)
(* BiuAgentCsvService.parseCsv and loadCsv                                 *)
(***************************************************************************)
MaxCsvEdits == 2
MaxCsvReads == 2

\* Map.prototype.has, get and set on a set of <<key, value>> entries.
mapHas(m, key) == \E entry \in m : entry[1] = key
mapGet(m, key) == (CHOOSE entry \in m : entry[1] = key)[2]
mapSet(m, key, value) == {entry \in m : entry[1] # key} \cup {<<key, value>>}

\* text.split(',')
RECURSIVE split(_)
split(text) ==
    IF \A i \in 1..Len(text) : text[i] # "," THEN <<text>>
    ELSE LET first == CHOOSE i \in 1..Len(text) :
                          text[i] = "," /\ \A j \in 1..(i - 1) : text[j] # ","
         IN  <<SubSeq(text, 1, first - 1)>>
                 \o split(SubSeq(text, first + 1, Len(text)))

\* Number(value), for the characters used here: only a run of 1s is a number.
Num(n) == [t |-> "num", v |-> n]
isNumber(value) == value # <<>> /\ \A i \in 1..Len(value) : value[i] = "1"
RECURSIVE numberOf(_)
numberOf(value) ==
    IF value = <<>> THEN 0
    ELSE 10 * numberOf(SubSeq(value, 1, Len(value) - 1)) + 1

\* const value = values[index]?.trim() || '';
\* record[header] = value === '' || isNaN(numValue) ? value : numValue
csvCell(value) ==
    IF trim(value) # <<>> /\ isNumber(trim(value))
    THEN Num(numberOf(trim(value)))
    ELSE Str(trim(value))

\* The loop of parseCsv over the lines after the header, from line i on.
RECURSIVE recordsFrom(_, _, _)
recordsFrom(lines, headers, i) ==
    IF i > Len(lines) THEN <<>>
    ELSE LET vals == parseCsvLine(lines[i])
         IN  IF Len(vals) # Len(headers)
             THEN recordsFrom(lines, headers, i + 1)
             ELSE <<Obj(RowToObject(headers,
                                    [k \in 1..Len(vals) |-> csvCell(vals[k])],
                                    1, EmptyObject))>>
                      \o recordsFrom(lines, headers, i + 1)

\* parseCsv; the content is given as its lines, content.split('\n').
parseCsv(content) ==
    LET lines == SelectSeq(content, LAMBDA l : trim(l) # <<>>)
    IN  IF Len(lines) = 0 THEN <<>>
        ELSE LET cut == split(lines[1])
                 headers == [k \in 1..Len(cut) |-> trim(cut[k])]
             IN  recordsFrom(lines, headers, 2)

\* The file contents tried: an empty file, a header with a row, the same
\* with another row, and a row of the wrong length.
CsvContents ==
    {<<>>,
     <<(<<"N", ",", "U">>), (<<"L", ",", "1">>)>>,
     <<(<<"N", ",", "U">>), (<<"1", "1", ",", "\"", ",", "\"">>)>>,
     <<(<<"N", ",", "U">>), (<<"L">>)>>}
FileStates ==
    {NoFile} \cup {File(c, TRUE) : c \in CsvContents}
        \cup {File(<<>>, FALSE)}

\* this.csvCache.has(fileName)
cacheHitNever(cache, fileName) == FALSE
cacheHit(cache, fileName) == mapHas(cache, fileName)

\* loadCsv, run on st = <<cache, reads, returns>>: the cache and the read
\* counts it leaves, and its return (or its exception) added to the
\* returns, each <<file name, how it ended, records>>.
loadCsv(st, fileName) ==
    LET cache == st[1]
        reads == st[2]
        file == csvFiles[fileName]
        ret(how, records) == Append(st[3], <<fileName, how, records>>)
    IN  IF cacheHit(cache, fileName)
        THEN <<cache, reads, ret("cached", mapGet(cache, fileName))>>
        ELSE IF csvDir = "missing"
        THEN <<cache, reads, ret("nodir", <<>>)>>
        ELSE IF csvDir = "file"
        THEN <<cache, reads, ret("threw", <<>>)>>
        ELSE IF ~file.exists
        THEN <<cache, reads, ret("nofile", <<>>)>>
        ELSE IF ~file.readable
        THEN <<cache, [reads EXCEPT ![fileName] = @ + 1], ret("unread", <<>>)>>
        ELSE LET records == parseCsv(file.content)
             IN  <<mapSet(cache, fileName, records),
                   [reads EXCEPT ![fileName] = @ + 1],
                   ret("loaded", records)>>

\* The loadCsv calls a service method makes before its first await, in
\* order; a call that throws ends the method.
RECURSIVE loadAll(_, _)
loadAll(st, names) ==
    IF names = <<>> THEN st
    ELSE LET next == loadCsv(st, Head(names))
         IN  IF next[3][Len(next[3])][2] = "threw" THEN next
             ELSE loadAll(next, Tail(names))

\* The service methods by the files they load.  (searchCustomers awaits
\* getCustomerProfile for each row it finds: further calls.)
CsvMethods ==
    {<<"RL_ACCT_BASE_AI.csv">>,
     <<"RL_ACCT_BASE_AI.csv", "RL_CC_BASE_AI.csv", "RL_PRODUCT_HOLDING_AI.csv">>,
     <<"RL_TXN_BASE_AI.csv">>,
     <<"RL_PRODUCT_HOLDING_AI.csv", "RL_ACCT_BASE_AI.csv">>,
     <<"RL_CC_BASE_AI.csv">>,
     <<"RL_PRODUCT_HOLDING_AI.csv">>}

CsvUnchanged ==
    UNCHANGED <<variant, host, op, cust, arg, pc, got, q, out, chatVars,
                queryVars, dashVars, dbVars, lineVars>>

\* One call of a public method of the service.
CsvCall ==
    \E names \in CsvMethods :
        LET done == loadAll(<<csvCache, csvReads, <<>>>>, names)
        IN  /\ \A f \in CsvFileNames : done[2][f] <= MaxCsvReads
            /\ csvCache' = done[1]
            /\ csvReads' = done[2]
            /\ csvRet' = done[3]
            /\ UNCHANGED <<csvDir, csvFiles, csvEdits>>
            /\ CsvUnchanged

\* Somebody changes the data directory or a file in it.
CsvEdit ==
    /\ csvEdits < MaxCsvEdits
    /\ csvEdits' = csvEdits + 1
    /\ \/ /\ \E d \in {"dir", "file", "missing"} \ {csvDir} : csvDir' = d
          /\ UNCHANGED csvFiles
       \/ /\ \E f \in CsvFileNames :
                \E fs \in FileStates \ {csvFiles[f]} :
                    csvFiles' = [csvFiles EXCEPT ![f] = fs]
          /\ UNCHANGED csvDir
    /\ UNCHANGED <<csvCache, csvReads, csvRet>>
    /\ CsvUnchanged

\* A new service over a data directory in which each file is there or not.
CsvInit ==
    /\ InitRequests
    /\ variant = "server"
    /\ qIn = EngineAnswer(NonObject)
    /\ qOut = None
    /\ InitDashboard
    /\ InitDb
    /\ InitLine
    /\ csvDir = "dir"
    /\ csvFiles \in [CsvFileNames ->
                        {NoFile,
                         File(<<(<<"N", ",", "U">>), (<<"L", ",", "1">>)>>,
                              TRUE)}]
    /\ csvCache = NewMap
    /\ csvReads = [f \in CsvFileNames |-> 0]
    /\ csvRet = <<>>
    /\ csvEdits = 0

CsvNext == CsvCall \/ CsvEdit

CsvSpec == CsvInit /\ [][CsvNext]_vars

(***************************************************************************)
(* BiuAgentSqliteService.getCustomerDatabase                               *)
(***************************************************************************)
\* A file name is the sequence of the parts of its template string.
dbName(cid) == <<cid, ".db">>
customerDbName(cid) == <<"customer_", cid, ".db">>
dataDbName(cid) == <<cid, "_data.db">>

\* config.defaultDatabase: left out (or ''), a name of its own, or a name
\* that is also some customer's.
NoDefault == <<>>
DbDefaults == {NoDefault, <<"default.db">>, dbName("C1")}
DbNames ==
    UNION {{dbName(c), customerDbName(c), dataDbName(c)} : c \in Customers}
        \cup {<<"default.db">>}

possibleNamesDefaultFirst(cid) ==
    <<IF dbDefault # NoDefault THEN dbDefault ELSE dbName(cid),
      dbName(cid), customerDbName(cid), dataDbName(cid)>>
possibleNames(cid) ==
    <<dbName(cid), customerDbName(cid), dataDbName(cid),
      IF dbDefault # NoDefault THEN dbDefault ELSE dbName(cid)>>

\* The for loop over possibleNames from index i on: <<dbPath, probed>>,
\* dbPath being <<>> for null.
RECURSIVE findDb(_, _, _)
findDb(names, i, probed) ==
    IF i > Len(names) THEN <<(<<>>), probed>>
    ELSE IF names[i] \in dbFiles THEN <<names[i], Append(probed, names[i])>>
    ELSE findDb(names, i + 1, Append(probed, names[i]))

DbNotFound(cid) ==
    [cls |-> "Error", msg |-> "Database not found for customer", code |-> "",
     customerId |-> cid]
DbOpenFailed(cid) ==
    [cls |-> "Error", msg |-> "Failed to open database for customer",
     code |-> "", customerId |-> cid]

DbUnchanged ==
    UNCHANGED <<variant, host, op, cust, arg, pc, got, q, out, chatVars,
                queryVars, dashVars, csvVars, lineVars>>

GetCustomerDatabase(customerId) ==
    LET found == findDb(possibleNames(customerId), 1, <<>>)
        dbPath == found[1]
    IN  /\ dbOut = None
        /\ dbCust' = customerId
        /\ dbProbed' = found[2]
        /\ dbOut' = IF dbPath = <<>> THEN Throw(DbNotFound(customerId))
                    ELSE IF dbPath \in dbBad
                    THEN Throw(DbOpenFailed(customerId))
                    ELSE Return(Str(dbPath))
        /\ UNCHANGED <<dbDefault, dbFiles, dbBad>>
        /\ DbUnchanged

\* The caller is done with the result; a file under customerDbPath comes,
\* goes, or changes between a database and something that does not open.
DbTouch ==
    /\ \E name \in DbNames :
          \/ /\ dbFiles' = IF name \in dbFiles THEN dbFiles \ {name}
                           ELSE dbFiles \cup {name}
             /\ UNCHANGED dbBad
          \/ /\ dbBad' = IF name \in dbBad THEN dbBad \ {name}
                         ELSE dbBad \cup {name}
             /\ UNCHANGED dbFiles
    /\ dbProbed' = <<>>
    /\ dbOut' = None
    /\ UNCHANGED <<dbCust, dbDefault>>
    /\ DbUnchanged

DbInit ==
    /\ InitRequests
    /\ variant = "server"
    /\ qIn = EngineAnswer(NonObject)
    /\ qOut = None
    /\ InitDashboard
    /\ InitCsv
    /\ InitLine
    /\ dbCust = "c1"
    /\ dbDefault \in DbDefaults
    /\ dbFiles = {}
    /\ dbBad = {}
    /\ dbProbed = <<>>
    /\ dbOut = None

DbNext == (\E customerId \in Customers : GetCustomerDatabase(customerId))
              \/ DbTouch

DbSpec == DbInit /\ [][DbNext]_vars

(***************************************************************************)
(* Properties                                                              *)
(***************************************************************************)
IsChat(r) == op[r] = "chatQuery"
InLoop(r) == pc[r] \in {"poll", "sleep"}

\* Request r's awaited poll answers with a result in this step.
PollReturns(r) ==
    /\ pc[r] = "poll"
    /\ pc'[r] # "poll"
    /\ askResult'[r].got = "result"

\* C1, the exits of the loop: a poll that returns a finished result leaves
\* the loop (no further poll, no timed-out reply); a poll that returns an
\* unfinished result after the deadline returns the timed-out message; one
\* that returns an unfinished result before the deadline sleeps and polls
\* again.
C1_LoopExit(r) ==
    PollReturns(r) =>
        IF askResult'[r].status \in {"FINISHED", "FAILED", "STOPPED"}
        THEN /\ ~InLoop(r)'
             /\ out'[r] # Return(Str("TimedOut"))
        ELSE IF elapsed'[r] > MaxWaitTicks
        THEN pc'[r] = "done" /\ out'[r] = Return(Str("TimedOut"))
        ELSE pc'[r] = "sleep"

\* C1: in chatQuery, once the asking task has been created, the polling loop
\* always ends: it is left on the first poll whose result is finished, or the
\* timed-out message is returned on the first unfinished poll seen after the
\* deadline; hence chatQuery eventually returns.
C1_PollingLoopEnds ==
    /\ [][\A r \in Reqs : C1_LoopExit(r)]_vars
    /\ \A r \in Reqs : (task[r] # 0) ~> (pc[r] = "done")

\* C1 witness: a call that polled more than once and then timed out.
C1_Witness ==
    \E r \in Reqs :
        /\ pc[r] = "done"
        /\ out[r] = Return(Str("TimedOut"))
        /\ pollCount[r] >= 2

\* C2: chatQuery never raises an error to its caller: every outcome is a
\* returned string, and an exception of the profile lookup, the project
\* lookup, createAskingTask, a poll, the dashboard fetch or the execution of
\* the generated SQL becomes the returned error string.
C2_ChatNeverThrows ==
    \A r \in Reqs :
        IsChat(r) =>
            /\ out[r].kind # "throw"
            /\ pc[r] = "done" => (out[r].kind = "return" /\ out[r].val.t = "str")
            /\ fault[r] \in {"profile", "project", "create", "poll",
                             "dashboard", "exec"}
                   => (pc[r] = "done" /\ out[r] = Return(Str("Error")))

\* C2 witness: one call whose dashboard fetch threw and one whose generated
\* SQL failed to execute, both answered with the error string.
C2_Witness ==
    \E r1, r2 \in Reqs :
        /\ fault[r1] = "dashboard" /\ out[r1] = Return(Str("Error"))
        /\ fault[r2] = "exec" /\ out[r2] = Return(Str("Error"))

\* The text contains customer_id = '<cid>' (the column name in any case).
HasCustomerFilter(words, cid) ==
    \E i \in 1..(Len(words) - 2) :
        /\ Lower(words[i]) = "customer_id"
        /\ words[i + 1] = "="
        /\ words[i + 2] = Quote(cid)

\* C3: whenever chatQuery executes AI-generated SQL, the SQL it passes to
\* executeQuery contains the filter customer_id = '<customerId>' of the
\* customer the question was asked about, whatever the shape of the SQL.
C3_FilterAlwaysPresent ==
    \A r \in Reqs :
        (IsChat(r) /\ q[r].sent /\ q[r].sql.gen)
            => HasCustomerFilter(q[r].sql.words, cust[r])

DataOps ==
    {"getCustomerDashboard", "getCustomerProfile", "getFinancialSummary",
     "getRecentActivity", "getAccountOverview", "getProductHoldings",
     "getCreditCardSummary", "getInvestmentData", "searchCustomers",
     "getAllCustomerIds"}

C5_PollsOwnTask ==
    \A r \in Reqs :
        /\ InLoop(r) => task[r] # 0
        /\ polled[r] # 0 =>
             /\ task[r] # 0
             /\ polled[r] = task[r]
             /\ \A s \in Reqs \ {r} : polled[r] # task[s]

\* C5 witness: two calls are in their polling loops together, each after at
\* least one poll.
C5_Witness ==
    \E r1, r2 \in Reqs :
        /\ r1 # r2
        /\ InLoop(r1) /\ InLoop(r2)
        /\ pollCount[r1] >= 1 /\ pollCount[r2] >= 1

\* The engine's answer is an object that has both fields data and columns.
HasTable(answer) ==
    ~answer.threw /\ answer.result.t = "object"
    /\ answer.result.hasData /\ answer.result.hasColumns

\* The value at index j of a row, undefined past its end.
ValueAt(row, j) == IF j <= Len(row) THEN row[j] ELSE "undefined"

\* The last index at which the name of column j occurs in the column list.
LastIndexOf(columns, j) ==
    CHOOSE k \in j..Len(columns) :
        /\ columns[k].name = columns[j].name
        /\ \A m \in (k + 1)..Len(columns) : columns[m].name # columns[j].name

\* executeQuery's outcome on an engine answer: each column name of each
\* row's object holds the value at the column's own index in the row, or,
\* with lastWins, at the last index at which the name occurs.
RowsToObjects(answer, outcome, lastWins) ==
    IF answer.threw THEN outcome = Throw(answer.err)
    ELSE IF ~HasTable(answer) \/ answer.result.dataNull
    THEN outcome = Return(List(<<>>))
    ELSE LET columns == answer.result.columns
             data == answer.result.data
         IN  /\ outcome.kind = "return"
             /\ outcome.val.t = "list"
             /\ Len(outcome.val.v) = Len(data)
             /\ \A i \in 1..Len(data) :
                  /\ outcome.val.v[i].t = "obj"
                  /\ DOMAIN outcome.val.v[i].v
                        = {columns[j].name : j \in 1..Len(columns)}
                  /\ \A j \in 1..Len(columns) :
                        outcome.val.v[i].v[columns[j].name]
                            = ValueAt(data[i], IF lastWins
                                               THEN LastIndexOf(columns, j)
                                               ELSE j)

\* C6 as stated: executeQuery returns one object per data row, in order, in
\* which each column name maps to the value at that column's index in the
\* row; an empty list when the result lacks the data and columns fields; and
\* it rethrows any engine error.
C6_EachColumnAtItsIndex ==
    qOut # None => RowsToObjects(qIn, qOut, FALSE)

\* C6 as amended: as stated, but a column name maps to the value at the last
\* index at which that name occurs in the column list (its own index when
\* the names are distinct).
C6_EachNameAtItsLastIndex ==
    qOut # None => RowsToObjects(qIn, qOut, TRUE)

\* C6 witness: two rows were turned into objects under a column list that
\* repeats a name.
C6_Witness ==
    /\ qOut # None
    /\ HasTable(qIn)
    /\ Len(qIn.result.data) = 2
    /\ Len(qOut.val.v) = 2
    /\ Len(qIn.result.columns) = 2
    /\ qIn.result.columns[1].name = qIn.result.columns[2].name
    /\ qIn.result.data[1] = <<"u", "v">>

Returned(r, name) == op[r] = name /\ pc[r] = "done"

\* C7: for every integer limit argument of getRecentActivity (0, negative,
\* above 100, and the default 10 when omitted) the LIMIT written into the
\* SQL and the row limit passed to the engine are the same number, between 1
\* and 100.
C7_LimitClamped ==
    \A r \in Reqs :
        Returned(r, "getRecentActivity") =>
            /\ q[r].sent
            /\ q[r].sql.table = "transactions"
            /\ q[r].sql.sqlLimit = q[r].limit
            /\ q[r].limit >= 1 /\ q[r].limit <= 100
            /\ ~arg[r].given => q[r].limit = 10
            /\ (arg[r].given /\ arg[r].n >= 1 /\ arg[r].n <= 100)
                  => q[r].limit = arg[r].n

\* C7 witness: a call with limit 0 and a call with limit 101 have run.
C7_Witness ==
    \E r1, r2 \in Reqs :
        /\ Returned(r1, "getRecentActivity") /\ arg[r1] = IntArg(0)
        /\ Returned(r2, "getRecentActivity") /\ arg[r2] = IntArg(101)

\* C8: resolver getCustomerProfile: when the service finds no profile, a
\* GraphQLError with code CUSTOMER_NOT_FOUND carrying the customerId is
\* thrown and reaches the caller unchanged; a GraphQLError of the service
\* passes unchanged too; only errors that are not GraphQLErrors are rewrapped
\* as 'Failed to fetch customer profile'.
C8_ProfileErrors ==
    \A r \in Reqs :
        Returned(r, "getCustomerProfile") =>
            LET answer == got[r][1]
                wrapped == out[r].kind = "throw"
                           /\ out[r].err.msg = "Failed to fetch customer profile"
            IN  /\ (~answer.threw /\ executeQueryOne(answer) = Return(Null))
                      => /\ out[r].kind = "throw"
                         /\ out[r].err.cls = "GraphQLError"
                         /\ out[r].err.code = "CUSTOMER_NOT_FOUND"
                         /\ out[r].err.customerId = cust[r]
                /\ (answer.threw /\ answer.err.cls = "GraphQLError")
                      => out[r] = Throw(answer.err)
                /\ wrapped <=> (answer.threw /\ answer.err.cls # "GraphQLError")

\* C8 witness: one call found no profile, another met a GraphQLError of the
\* service.
C8_Witness ==
    \E r1, r2 \in Reqs :
        /\ Returned(r1, "getCustomerProfile")
        /\ out[r1].err.code = "CUSTOMER_NOT_FOUND"
        /\ Returned(r2, "getCustomerProfile")
        /\ got[r2][1] = EngineThrow(HostGraphQLError)

\* C9: resolver getFinancialSummary returns a summary whose eight fields are
\* all 0 when the service finds no data for the customer, not null or an
\* error; it throws only when the service itself throws.
C9_ZeroSummary ==
    \A r \in Reqs :
        Returned(r, "getFinancialSummary") =>
            LET answer == got[r][1]
            IN  /\ (~answer.threw /\ executeQueryOne(answer) = Return(Null))
                      => /\ out[r].kind = "return"
                         /\ out[r].val.t = "obj"
                         /\ Cardinality(DOMAIN out[r].val.v) = 8
                         /\ \A k \in DOMAIN out[r].val.v : out[r].val.v[k] = 0
                /\ out[r].kind = "throw" <=> answer.threw

\* C9 witness: a call for which the service found no data has returned.
C9_Witness ==
    \E r \in Reqs :
        /\ Returned(r, "getFinancialSummary")
        /\ got[r][1] = EmptyAnswer
        /\ out[r].kind = "return"

\* C10: resolver getCreditCardSummary returns null if no credit cards are
\* found for the customer.
C10_NullWhenNoCards ==
    \A r \in Reqs :
        (/\ Returned(r, "getCreditCardSummary")
         /\ ~got[r][1].threw
         /\ executeQuery(got[r][1]) = Return(List(<<>>)))
            => out[r] = Return(Null)

\* The call whose row a dashboard field holds: the cell of the one row of
\* a list, or of the single row.
CallOfField(value) ==
    IF value.t = "list" THEN value.v[1].v["customerId"]
    ELSE value.v["customerId"]

\* C11: getCustomerDashboard starts its seven sub-queries together (all are
\* started, for the call's customerId and in the order of the fields, before
\* any of them settles, recentActivity with limit 10), and in whatever order
\* they settle each field of the returned dashboard holds the result of its
\* own sub-query for that customerId.
C11_EachFieldItsOwnResult ==
    /\ dPc # "none" =>
          /\ Len(dCalls) = 7
          /\ \A k \in 1..7 :
                /\ dCalls[k].method = DashboardMethods[k]
                /\ dCalls[k].customerId = dCust
          /\ dCalls[3].query.limit = 10
          /\ dCalls[3].query.sql.sqlLimit = 10
    /\ (dPc = "done" /\ dOut.kind = "return") =>
          \A k \in 1..7 :
              LET call == CallOfField(dOut.val.v[DashboardFields[k]])
              IN  /\ call.method = DashboardMethods[k]
                  /\ call.customerId = dCust
                  /\ call = dCalls[k]

\* A dashboard whose sub-queries settled last to first.
C11_Witness ==
    /\ dPc = "done"
    /\ dOut.kind = "return"
    /\ dOrder = <<7, 6, 5, 4, 3, 2, 1>>

\* C12: once any sub-query of getCustomerDashboard fails the resolver throws
\* a GraphQLError with code CUSTOMER_DASHBOARD_ERROR and returns no
\* dashboard, also for the credit-card and the investment query, on whose
\* failure the standalone resolvers return null and [].
C12_NoPartialDashboard ==
    /\ \A k \in DOMAIN dGot :
          dGot[k].threw =>
              /\ dPc = "done"
              /\ dOut.kind = "throw"
              /\ dOut.err.cls = "GraphQLError"
              /\ dOut.err.code = "CUSTOMER_DASHBOARD_ERROR"
              /\ resGetCreditCardSummary(dGot[k]) = Return(Null)
              /\ resGetInvestmentData(dGot[k]) = Return(List(<<>>))
    /\ dOut.kind = "return" => \A k \in DOMAIN dGot : ~dGot[k].threw

\* The credit-card query fails after five others succeeded.
C12_Witness ==
    /\ dPc = "done"
    /\ dOut.kind = "throw"
    /\ Len(dOrder) = 6
    /\ dOrder[6] = 6
    /\ dGot[6].threw

\* Request r is in the try around the explanation stream.
AtStream(r) == pc[r] \in {"stream", "streaming"}

\* C13, one step of request r out of the try around the stream: the chat
\* has not returned and has recorded no failure, the text collected so far
\* is kept, and a stream that could not be opened, that failed or that was
\* destroyed by the timer leaves chatQuery at its call of
\* getCustomerDashboard.
C13_StreamExit(r) ==
    (AtStream(r) /\ pc'[r] # pc[r]) =>
        /\ pc'[r] \in {"streaming", "dashboard"}
        /\ out'[r] = None
        /\ fault'[r] = ""
        /\ explanation'[r] = explanation[r]
        /\ stream'[r] \in {"failed", "error", "ended", "destroyed"} =>
              pc'[r] = "dashboard"
        /\ stream'[r] = "destroyed" => elapsed'[r] = StreamTimeoutTicks

\* C13: in the GENERAL branch a failing or stalled explanation stream never
\* fails the chat: every step out of the try is as C13_StreamExit says, the
\* wait for the stream never outlasts the timer, and chatQuery always goes
\* on to fetch the customer's dashboard.
C13_StreamNeverFailsChat ==
    /\ [][\A r \in Reqs : C13_StreamExit(r)]_vars
    /\ [](\A r \in Reqs :
            pc[r] = "streaming" => elapsed[r] <= StreamTimeoutTicks)
    /\ \A r \in Reqs : AtStream(r) ~> (pc[r] = "dashboard")

\* A stalled stream was destroyed by the timer with a message collected,
\* and the dashboard is being fetched.
C13_Witness ==
    \E r \in Reqs :
        /\ pc[r] = "dashboard"
        /\ stream[r] = "destroyed"
        /\ elapsed[r] = StreamTimeoutTicks
        /\ explanation[r] = <<"a">>

\* The positions of character c in a text, and how often c occurs in the
\* values of a list.
PositionsOf(text, c) == {i \in 1..Len(text) : text[i] = c}
RECURSIVE CountIn(_, _)
CountIn(vals, c) ==
    IF vals = <<>> THEN 0
    ELSE Cardinality(PositionsOf(Head(vals), c)) + CountIn(Tail(vals), c)

\* Position i of the line lies outside double quotes: an even number of
\* quote characters precedes it.
OutsideQuotes(text, i) ==
    Cardinality({j \in PositionsOf(text, DQuote) : j < i}) % 2 = 0

\* The commas that split, and the doubled quotes inside a quoted value.
SplittingCommas(text) ==
    {i \in PositionsOf(text, ",") : OutsideQuotes(text, i)}
DoubledQuotes(text) ==
    {i \in PositionsOf(text, DQuote) :
        /\ ~OutsideQuotes(text, i)
        /\ i + 1 \in PositionsOf(text, DQuote)}

\* The k-th piece of a line without quotes, cut at its commas.
RECURSIVE Piece(_, _)
Piece(text, k) ==
    LET commas == PositionsOf(text, ",")
        first == IF commas = {} THEN Len(text) + 1
                 ELSE CHOOSE i \in commas : \A j \in commas : i <= j
    IN  IF k = 1 THEN SubSeq(text, 1, first - 1)
        ELSE Piece(SubSeq(text, first + 1, Len(text)), k - 1)

\* C16: parseCsvLine yields 1 + (number of commas outside double quotes)
\* fields; a comma inside quotes does not split and stays in its field; a
\* doubled quote inside a quoted value yields one literal quote and every
\* other quote character is dropped; no field is NULL, and on a line
\* without quotes each field is the trimmed text between the commas, or
\* the empty string when that text is NULL.
C16_FieldsOfLine ==
    values # <<>> =>
        /\ Len(values) = 1 + Cardinality(SplittingCommas(line))
        /\ CountIn(values, ",") =
              Cardinality(PositionsOf(line, ",") \ SplittingCommas(line))
        /\ CountIn(values, DQuote) = Cardinality(DoubledQuotes(line))
        /\ \A k \in 1..Len(values) : values[k] # NullWord
        /\ PositionsOf(line, DQuote) = {} =>
              \A k \in 1..Len(values) :
                  values[k] = IF trim(Piece(line, k)) = NullWord THEN <<>>
                              ELSE trim(Piece(line, k))

\* The line ",""", (a quoted value holding a comma and a doubled quote) has
\* been parsed into one field.
C16_Witness ==
    /\ line = <<DQuote, ",", DQuote, DQuote, DQuote>>
    /\ values = <<(<<",", DQuote>>)>>

\* The names with an entry in the cache.
CachedNames(cache) == {entry[1] : entry \in cache}

\* C14: once loadCsv has loaded a file name, the cache keeps that entry as
\* it is (never replaced, never removed, one entry per name), the file is
\* not read again, and every loadCsv of that name in a later call returns
\* the cached records, whatever calls follow and however the files change.
C14_CachedForGood ==
    [][/\ csvCache \subseteq csvCache'
       /\ Cardinality(csvCache') = Cardinality(CachedNames(csvCache'))
       /\ \A f \in CachedNames(csvCache) :
             /\ csvReads'[f] = csvReads[f]
             /\ csvRet' # csvRet =>
                   \A i \in DOMAIN csvRet' :
                       csvRet'[i][1] = f =>
                           /\ csvRet'[i][2] = "cached"
                           /\ <<f, csvRet'[i][3]>> \in csvCache]_vars

\* The account file was loaded, then changed on disk, and a later call got
\* the cached records without another read.
C14_Witness ==
    /\ csvReads["RL_ACCT_BASE_AI.csv"] = 1
    /\ csvFiles["RL_ACCT_BASE_AI.csv"] = NoFile
    /\ csvRet = <<(<<"RL_ACCT_BASE_AI.csv", "cached",
                     parseCsv(<<(<<"N", ",", "U">>), (<<"L", ",", "1">>)>>)>>)>>
    /\ parseCsv(<<(<<"N", ",", "U">>), (<<"L", ",", "1">>)>>) # <<>>

\* The names the database of a customer is looked for under, in order.
Candidates(cid) ==
    <<(<<cid, ".db">>), (<<"customer_", cid, ".db">>), (<<cid, "_data.db">>)>>
        \o (IF dbDefault = NoDefault THEN <<>> ELSE <<dbDefault>>)

\* A sequence without the later repeats of its elements.
RECURSIVE Dedup(_)
Dedup(seq) ==
    IF seq = <<>> THEN <<>>
    ELSE LET front == SubSeq(seq, 1, Len(seq) - 1)
         IN  IF \E i \in DOMAIN front : front[i] = seq[Len(seq)]
             THEN Dedup(front)
             ELSE Append(Dedup(front), seq[Len(seq)])

\* C15: getCustomerDatabase looks for {customerId}.db, customer_{customerId}.db
\* and {customerId}_data.db in that order and then for the configured
\* default, stops at the first that exists and opens that one, and raises
\* 'Database not found for customer' exactly when none of them exists.
C15_FirstExistingName ==
    dbOut.kind # "none" =>
        LET names == Candidates(dbCust)
            there == {i \in DOMAIN names : names[i] \in dbFiles}
            tried == Dedup(dbProbed)
        IN  /\ Len(tried) <= Len(Dedup(names))
            /\ tried = SubSeq(Dedup(names), 1, Len(tried))
            /\ (dbOut = Throw(DbNotFound(dbCust))) <=> (there = {})
            /\ there = {} => tried = Dedup(names)
            /\ there # {} =>
                  LET first == CHOOSE i \in there : \A j \in there : i <= j
                  IN  /\ tried[Len(tried)] = names[first]
                      /\ dbOut \in {Return(Str(names[first])),
                                    Throw(DbOpenFailed(dbCust))}
                      /\ (dbOut.kind = "return") <=> (names[first] \notin dbBad)

\* None of the three names of the customer exists, the default does, and
\* the default was opened although another customer's first name exists.
C15_Witness ==
    /\ dbCust = "C1"
    /\ dbDefault = <<"default.db">>
    /\ dbFiles = {<<"default.db">>, <<"c1", ".db">>}
    /\ Len(dbProbed) = 4
    /\ dbOut = Return(Str(<<"default.db">>))
=========================================================================
